---- MODULE Spec2Model ----
(***************************************************************************)
(* Model of get_flags/asyncio_version.py: the bounded-concurrency flag     *)
(* downloader.  One download_one task per country code runs two gated      *)
(* fetches (get_flag, get_country) under one shared asyncio.Semaphore;     *)
(* supervisor drains the completions in completion order and tallies them  *)
(* in a Counter.                                                           *)
(*                                                                         *)
(* Country codes are modelled by their position in sorted(cc_list), so     *)
(* cc_list is the set 1..n.  The responses of the remote server are the    *)
(* environment's choice, made when a fetch answers, and recorded in        *)
(* flag_resp / country_resp.                                               *)
(***************************************************************************)
EXTENDS Integers, Sequences, FiniteSets, TLC

\* Bounds of the model
MaxKeys == 3
MaxConcur == 2
\* Largest key list of the runs checked for termination
LiveKeys == 2
\* Bounds of the TCP finder session: reads per session, characters per line
MaxReads == 3
MaxLineLen == 2

\* Program constant (asyncio_version.py line 16)
MAX_CONCUR_REQ == 1000

VARIABLES
    cc_list,       \* the keys: positions 1..n of sorted(cc_list)
    concur_req,    \* the requested capacity
    sup_pc,        \* position of main / download_many / supervisor
    sup_exc,       \* exception that left supervisor, "none" if none
    loop,          \* the event loop of asyncio.run: "none", "running", "closed"
    counter,       \* supervisor's Counter[DownloadStatus]
    error,         \* supervisor's local `error`
    semaphore,     \* the semaphore's internal value (free slots)
    task_pc,       \* position of each download_one task
    task_res,      \* result of each task: a status, or the exception raised
    flag_resp,     \* response the primary fetch of a key got
    country_resp,  \* response the metadata fetch of a key got
    flag_calls,    \* number of get_flag requests issued per key
    country_calls, \* number of get_country requests issued per key
    saved,         \* number of save_flag calls per key
    held,          \* number of semaphore slots each task holds
    done_queue,    \* completions not yet drained, in completion order
    drained,       \* completions drained by supervisor, in drain order
    interrupted,   \* a KeyboardInterrupt was raised at `await coro`
    \* tcp_mojifinder.py: one session of the finder handler
    finder_pc,     \* position of finder: "prompt", "read", "search", "closed"
    data,          \* the bytes the last readline returned
    prompts,       \* number of prompts written
    reads,         \* number of readline calls that returned
    searches,      \* number of calls of search
    searched,      \* number of calls of search since the last read
    closes         \* number of calls of writer.close

finder_vars == << finder_pc, data, prompts, reads, searches, searched, closes >>

download_vars ==
    << cc_list, concur_req, sup_pc, sup_exc, loop, counter, error,
       semaphore, task_pc, task_res, flag_resp, country_resp,
       flag_calls, country_calls, saved, held, done_queue, drained,
       interrupted >>

vars == << download_vars, finder_vars >>

----------------------------------------------------------------------------
\* DownloadStatus (common.py, used at lines 64, 74, 124)
DownloadStatus == {"OK", "NOT_FOUND", "ERROR"}

\* What one remote request can do: answer 200, answer 404, answer another
\* error status (raise_for_status raises HTTPStatusError), or fail in the
\* transport (client.get raises an httpx.RequestError such as a timeout).
FlagResponses == {"ok", "404", "status", "transport"}

\* get_country can also fail on a 200 answer: metadata["country"] raises
\* KeyError when the field is missing.
CountryResponses == FlagResponses \cup {"nocountry"}

\* The exception a failed fetch raises into download_one
RaisedBy(resp) ==
    CASE resp = "404"       -> "HTTPStatusError"
      [] resp = "status"    -> "HTTPStatusError"
      [] resp = "transport" -> "RequestError"
      [] resp = "nocountry" -> "KeyError"

\* download_one's except clause: only HTTPStatusError is caught, and only
\* a 404 is turned into a status; everything else leaves the task.
\* (variant: `raise` for every status code, 404 included)
HandleFailureReraises404(resp) == RaisedBy(resp)

HandleFailure(resp) ==
    IF RaisedBy(resp) = "HTTPStatusError" /\ resp = "404"
    THEN "NOT_FOUND"
    ELSE RaisedBy(resp)

\* str.format: every field name of the template must be among the keyword
\* arguments, else KeyError.  Line 116 names the field `resp`, line 117
\* passes the keyword `res`.
TemplateFields == {"resp"}
FormatKwargs == {"res"}
\* (variant: the keyword matches the field, format succeeds)
FormatRaisesKeyErrorFixed == FALSE

FormatRaisesKeyError == ~(TemplateFields \subseteq FormatKwargs)

\* Command-line validation of the capacity done by common.main before it
\* calls download_many.
\* (variant: the lower limit is 0)
MainAcceptsZero(c) == c >= 0 /\ c <= MAX_CONCUR_REQ

MainAccepts(c) == c >= 1 /\ c <= MAX_CONCUR_REQ

\* Tasks that currently hold a slot of the semaphore
Holders == {k \in cc_list : task_pc[k] \in {"get_flag", "get_country"}}

Total == counter["OK"] + counter["NOT_FOUND"] + counter["ERROR"]

Range(s) == {s[i] : i \in 1..Len(s)}

\* Slots held by the tasks of a set of keys
RECURSIVE HeldBy(_)
HeldBy(S) ==
    IF S = {} THEN 0
    ELSE LET k == CHOOSE x \in S : TRUE
         IN  held[k] + HeldBy(S \ {k})

----------------------------------------------------------------------------
Init ==
    /\ cc_list \in {1..n : n \in 0..MaxKeys}
    /\ concur_req \in (-1..MaxConcur) \cup {MAX_CONCUR_REQ + 1}
    /\ sup_pc = "main"
    /\ sup_exc = "none"
    /\ loop = "none"
    /\ counter = [s \in DownloadStatus |-> 0]
    /\ error = "none"
    /\ semaphore = 0
    /\ task_pc = [k \in cc_list |-> "new"]
    /\ task_res = [k \in cc_list |-> "none"]
    /\ flag_resp = [k \in cc_list |-> "none"]
    /\ country_resp = [k \in cc_list |-> "none"]
    /\ flag_calls = [k \in cc_list |-> 0]
    /\ country_calls = [k \in cc_list |-> 0]
    /\ saved = [k \in cc_list |-> 0]
    /\ held = [k \in cc_list |-> 0]
    /\ done_queue = << >>
    /\ drained = << >>
    /\ interrupted = FALSE
    /\ finder_pc = "prompt"
    /\ data = << >>
    /\ prompts = 0
    /\ reads = 0
    /\ searches = 0
    /\ searched = 0
    /\ closes = 0

----------------------------------------------------------------------------
\* Entry point

\* main rejects a capacity outside [1, MAX_CONCUR_REQ] with a usage error.
MainRejects ==
    /\ sup_pc = "main"
    /\ ~MainAccepts(concur_req)
    /\ sup_pc' = "usage_error"
    /\ UNCHANGED held
    /\ UNCHANGED finder_vars
    /\ UNCHANGED << cc_list, concur_req, sup_exc, loop, counter, error,
                    semaphore, task_pc, task_res, flag_resp, country_resp,
                    flag_calls, country_calls, saved, done_queue, drained,
                    interrupted >>

\* download_many: asyncio.run(supervisor(...)) starts the event loop.
download_many ==
    /\ sup_pc = "main"
    /\ MainAccepts(concur_req)
    /\ sup_pc' = "supervisor"
    /\ loop' = "running"
    /\ UNCHANGED held
    /\ UNCHANGED finder_vars
    /\ UNCHANGED << cc_list, concur_req, sup_exc, counter, error,
                    semaphore, task_pc, task_res, flag_resp, country_resp,
                    flag_calls, country_calls, saved, done_queue, drained,
                    interrupted >>

\* supervisor up to the first `await coro`: Counter(), Semaphore(concur_req)
\* (ValueError when negative), one download_one per key, as_completed
\* schedules them all.
supervisor_start ==
    /\ sup_pc = "supervisor"
    /\ counter' = [s \in DownloadStatus |-> 0]
    /\ error' = "none"
    /\ IF concur_req < 0
       THEN /\ sup_pc' = "raised"
            /\ sup_exc' = "ValueError"
            /\ UNCHANGED << semaphore, task_pc >>
       ELSE /\ semaphore' = concur_req
            /\ task_pc' = [k \in cc_list |-> "acquire_flag"]
            /\ sup_pc' = "draining"
            /\ UNCHANGED sup_exc
    /\ UNCHANGED held
    /\ UNCHANGED finder_vars
    /\ UNCHANGED << cc_list, concur_req, loop, task_res, flag_resp,
                    country_resp, flag_calls, country_calls, saved,
                    done_queue, drained, interrupted >>

----------------------------------------------------------------------------
\* download_one

\* A task ends: its result is set and as_completed queues the completion.
Finish(k, res) ==
    /\ task_res' = [task_res EXCEPT ![k] = res]
    /\ done_queue' = Append(done_queue, k)

\* `async with semaphore:` before get_flag; the request is issued.
acquire_flag(k) ==
    /\ loop = "running"
    /\ task_pc[k] = "acquire_flag"
    /\ semaphore > 0
    /\ semaphore' = semaphore - 1
    /\ task_pc' = [task_pc EXCEPT ![k] = "get_flag"]
    /\ flag_calls' = [flag_calls EXCEPT ![k] = @ + 1]
    /\ held' = [held EXCEPT ![k] = @ + 1]
    /\ UNCHANGED finder_vars
    /\ UNCHANGED << cc_list, concur_req, sup_pc, sup_exc, loop, counter,
                    error, task_res, flag_resp, country_resp, country_calls,
                    saved, done_queue, drained, interrupted >>

\* get_flag answers: the slot is released on every exit of the with block.
\* (variant: the first `async with` encloses the rest of the task, so the
\* slot of the primary fetch is kept when the fetch succeeds)
get_flag_keeps_slot(k, resp) ==
    /\ loop = "running"
    /\ task_pc[k] = "get_flag"
    /\ flag_resp' = [flag_resp EXCEPT ![k] = resp]
    /\ IF resp = "ok"
       THEN /\ task_pc' = [task_pc EXCEPT ![k] = "acquire_country"]
            /\ UNCHANGED << task_res, done_queue, semaphore, held >>
       ELSE /\ task_pc' = [task_pc EXCEPT ![k] = "done"]
            /\ semaphore' = semaphore + 1
            /\ held' = [held EXCEPT ![k] = @ - 1]
            /\ Finish(k, HandleFailure(resp))
    /\ UNCHANGED finder_vars
    /\ UNCHANGED << cc_list, concur_req, sup_pc, sup_exc, loop, counter,
                    error, country_resp, flag_calls, country_calls, saved,
                    drained, interrupted >>

\* (variant: a transport failure of the primary fetch is retried)
get_flag_retries(k, resp) ==
    /\ loop = "running"
    /\ task_pc[k] = "get_flag"
    /\ semaphore' = semaphore + 1
    /\ flag_resp' = [flag_resp EXCEPT ![k] = resp]
    /\ IF resp \in {"ok", "transport"}
       THEN /\ task_pc' = [task_pc EXCEPT ![k] =
                              IF resp = "ok" THEN "acquire_country"
                              ELSE "acquire_flag"]
            /\ UNCHANGED << task_res, done_queue >>
       ELSE /\ task_pc' = [task_pc EXCEPT ![k] = "done"]
            /\ Finish(k, HandleFailure(resp))
    /\ held' = [held EXCEPT ![k] = @ - 1]
    /\ UNCHANGED finder_vars
    /\ UNCHANGED << cc_list, concur_req, sup_pc, sup_exc, loop, counter,
                    error, country_resp, flag_calls, country_calls, saved,
                    drained, interrupted >>

\* (variant: the slot is released by hand after the fetch, without
\* try/finally, so a fetch that raises keeps it)
get_flag_leaks_on_error(k, resp) ==
    /\ loop = "running"
    /\ task_pc[k] = "get_flag"
    /\ flag_resp' = [flag_resp EXCEPT ![k] = resp]
    /\ IF resp = "ok"
       THEN /\ task_pc' = [task_pc EXCEPT ![k] = "acquire_country"]
            /\ semaphore' = semaphore + 1
            /\ held' = [held EXCEPT ![k] = @ - 1]
            /\ UNCHANGED << task_res, done_queue >>
       ELSE /\ task_pc' = [task_pc EXCEPT ![k] = "done"]
            /\ UNCHANGED << semaphore, held >>
            /\ Finish(k, HandleFailure(resp))
    /\ UNCHANGED finder_vars
    /\ UNCHANGED << cc_list, concur_req, sup_pc, sup_exc, loop, counter,
                    error, country_resp, flag_calls, country_calls, saved,
                    drained, interrupted >>

get_flag(k, resp) ==
    /\ loop = "running"
    /\ task_pc[k] = "get_flag"
    /\ semaphore' = semaphore + 1
    /\ flag_resp' = [flag_resp EXCEPT ![k] = resp]
    /\ IF resp = "ok"
       THEN /\ task_pc' = [task_pc EXCEPT ![k] = "acquire_country"]
            /\ UNCHANGED << task_res, done_queue >>
       ELSE /\ task_pc' = [task_pc EXCEPT ![k] = "done"]
            /\ Finish(k, HandleFailure(resp))
    /\ held' = [held EXCEPT ![k] = @ - 1]
    /\ UNCHANGED finder_vars
    /\ UNCHANGED << cc_list, concur_req, sup_pc, sup_exc, loop, counter,
                    error, country_resp, flag_calls, country_calls, saved,
                    drained, interrupted >>

\* The second `async with semaphore:`; the metadata request is issued.
\* The semaphore admits a waiting task only while a slot is free; which
\* waiting task is admitted is left open.
\* (variant: get_country outside the semaphore's guard)
acquire_country_ungated(k) ==
    /\ loop = "running"
    /\ task_pc[k] = "acquire_country"
    /\ semaphore' = semaphore - 1
    /\ task_pc' = [task_pc EXCEPT ![k] = "get_country"]
    /\ country_calls' = [country_calls EXCEPT ![k] = @ + 1]
    /\ held' = [held EXCEPT ![k] = @ + 1]
    /\ UNCHANGED finder_vars
    /\ UNCHANGED << cc_list, concur_req, sup_pc, sup_exc, loop, counter,
                    error, task_res, flag_resp, country_resp, flag_calls,
                    saved, done_queue, drained, interrupted >>

acquire_country(k) ==
    /\ loop = "running"
    /\ task_pc[k] = "acquire_country"
    /\ semaphore > 0
    /\ semaphore' = semaphore - 1
    /\ task_pc' = [task_pc EXCEPT ![k] = "get_country"]
    /\ country_calls' = [country_calls EXCEPT ![k] = @ + 1]
    /\ held' = [held EXCEPT ![k] = @ + 1]
    /\ UNCHANGED finder_vars
    /\ UNCHANGED << cc_list, concur_req, sup_pc, sup_exc, loop, counter,
                    error, task_res, flag_resp, country_resp, flag_calls,
                    saved, done_queue, drained, interrupted >>

\* (variant: the slot is released by hand after the fetch, without
\* try/finally, so a fetch that raises keeps it)
get_country_leaks_on_error(k, resp) ==
    /\ loop = "running"
    /\ task_pc[k] = "get_country"
    /\ country_resp' = [country_resp EXCEPT ![k] = resp]
    /\ IF resp = "ok"
       THEN /\ task_pc' = [task_pc EXCEPT ![k] = "save_flag"]
            /\ semaphore' = semaphore + 1
            /\ held' = [held EXCEPT ![k] = @ - 1]
            /\ UNCHANGED << task_res, done_queue >>
       ELSE /\ task_pc' = [task_pc EXCEPT ![k] = "done"]
            /\ UNCHANGED << semaphore, held >>
            /\ Finish(k, HandleFailure(resp))
    /\ UNCHANGED finder_vars
    /\ UNCHANGED << cc_list, concur_req, sup_pc, sup_exc, loop, counter,
                    error, flag_resp, flag_calls, country_calls, saved,
                    drained, interrupted >>

get_country(k, resp) ==
    /\ loop = "running"
    /\ task_pc[k] = "get_country"
    /\ semaphore' = semaphore + 1
    /\ country_resp' = [country_resp EXCEPT ![k] = resp]
    /\ IF resp = "ok"
       THEN /\ task_pc' = [task_pc EXCEPT ![k] = "save_flag"]
            /\ UNCHANGED << task_res, done_queue >>
       ELSE /\ task_pc' = [task_pc EXCEPT ![k] = "done"]
            /\ Finish(k, HandleFailure(resp))
    /\ held' = [held EXCEPT ![k] = @ - 1]
    /\ UNCHANGED finder_vars
    /\ UNCHANGED << cc_list, concur_req, sup_pc, sup_exc, loop, counter,
                    error, flag_resp, flag_calls, country_calls, saved,
                    drained, interrupted >>

\* else-branch: save_flag in a thread, status OK, return.
save_flag(k) ==
    /\ loop = "running"
    /\ task_pc[k] = "save_flag"
    /\ saved' = [saved EXCEPT ![k] = @ + 1]
    /\ task_pc' = [task_pc EXCEPT ![k] = "done"]
    /\ Finish(k, "OK")
    /\ UNCHANGED held
    /\ UNCHANGED finder_vars
    /\ UNCHANGED << cc_list, concur_req, sup_pc, sup_exc, loop, counter,
                    error, semaphore, flag_resp, country_resp, flag_calls,
                    country_calls, drained, interrupted >>

----------------------------------------------------------------------------
\* supervisor's loop over as_completed

\* counter[status] += 1
\* (variant: `=` for `+=`)
TallyAssigns(c, status) == [c EXCEPT ![status] = 1]

Tally(c, status) == [c EXCEPT ![status] = @ + 1]

\* `if error: status = DownloadStatus.ERROR`
\* (variant: `if not error`)
StatusOfInverted(res, err) == IF err = "none" THEN "ERROR" ELSE res

StatusOf(res, err) == IF err # "none" THEN "ERROR" ELSE res

\* The supervisor leaves with an exception; nothing is returned.
\* (variant: a bare `except Exception` that counts the key as ERROR)
RaiseCountsError(exc) ==
    /\ counter' = Tally(counter, "ERROR")
    /\ UNCHANGED << sup_pc, sup_exc, error >>

Raise(exc) ==
    /\ sup_pc' = "raised"
    /\ sup_exc' = exc
    /\ UNCHANGED << counter, error >>

\* One iteration of `for coro in to_do_iter`: await the next completion,
\* then the except clauses, `if error:` and the tally.
drain ==
    /\ sup_pc = "draining"
    /\ Len(drained) < Cardinality(cc_list)
    /\ done_queue # << >>
    /\ LET k == Head(done_queue)
           res == task_res[k]
       IN  /\ done_queue' = Tail(done_queue)
           /\ drained' = Append(drained, k)
           /\ CASE res \in {"OK", "NOT_FOUND"} ->
                    /\ counter' = Tally(counter, StatusOf(res, error))
                    /\ UNCHANGED << sup_pc, sup_exc, error >>
                [] res = "HTTPStatusError" ->
                    IF FormatRaisesKeyError
                    THEN Raise("KeyError")
                    ELSE /\ error' = res
                         /\ counter' = Tally(counter, "ERROR")
                         /\ UNCHANGED << sup_pc, sup_exc >>
                [] OTHER -> Raise(res)
    /\ UNCHANGED held
    /\ UNCHANGED finder_vars
    /\ UNCHANGED << cc_list, concur_req, loop, semaphore, task_pc, task_res,
                    flag_resp, country_resp, flag_calls, country_calls,
                    saved, interrupted >>

\* except KeyboardInterrupt: break -- then `return counter`.  The interrupt
\* is the exception raised at `await coro`, where the handler covers it.
\* (variant: no handler, the interrupt leaves supervisor)
keyboard_interrupt_propagates ==
    /\ sup_pc = "draining"
    /\ Len(drained) < Cardinality(cc_list)
    /\ interrupted' = TRUE
    /\ sup_pc' = "raised"
    /\ sup_exc' = "KeyboardInterrupt"
    /\ UNCHANGED held
    /\ UNCHANGED finder_vars
    /\ UNCHANGED << cc_list, concur_req, loop, counter, error, semaphore,
                    task_pc, task_res, flag_resp, country_resp, flag_calls,
                    country_calls, saved, done_queue, drained >>

keyboard_interrupt ==
    /\ sup_pc = "draining"
    /\ Len(drained) < Cardinality(cc_list)
    /\ interrupted' = TRUE
    /\ sup_pc' = "returned"
    /\ UNCHANGED held
    /\ UNCHANGED finder_vars
    /\ UNCHANGED << cc_list, concur_req, sup_exc, loop, counter, error,
                    semaphore, task_pc, task_res, flag_resp, country_resp,
                    flag_calls, country_calls, saved, done_queue, drained >>

\* The iterator is exhausted: `return counter`.
\* (variant: a completion is awaited before the loop's end is tested)
supervisor_return_after_first ==
    /\ sup_pc = "draining"
    /\ drained # << >>
    /\ Len(drained) = Cardinality(cc_list)
    /\ sup_pc' = "returned"
    /\ UNCHANGED held
    /\ UNCHANGED finder_vars
    /\ UNCHANGED << cc_list, concur_req, sup_exc, loop, counter, error,
                    semaphore, task_pc, task_res, flag_resp, country_resp,
                    flag_calls, country_calls, saved, done_queue, drained,
                    interrupted >>

supervisor_return ==
    /\ sup_pc = "draining"
    /\ Len(drained) = Cardinality(cc_list)
    /\ sup_pc' = "returned"
    /\ UNCHANGED held
    /\ UNCHANGED finder_vars
    /\ UNCHANGED << cc_list, concur_req, sup_exc, loop, counter, error,
                    semaphore, task_pc, task_res, flag_resp, country_resp,
                    flag_calls, country_calls, saved, done_queue, drained,
                    interrupted >>

\* asyncio.run ends: the tasks still pending are cancelled (each leaves its
\* `async with`, releasing the slot it holds) and the loop is closed.
asyncio_run_exit ==
    /\ sup_pc \in {"returned", "raised"}
    /\ loop = "running"
    /\ loop' = "closed"
    /\ semaphore' = semaphore + HeldBy(cc_list)
    /\ task_pc' = [k \in cc_list |->
                      IF task_pc[k] \in {"new", "done"} THEN task_pc[k]
                      ELSE "cancelled"]
    /\ task_res' = [k \in cc_list |->
                      IF task_pc[k] \in {"new", "done"} THEN task_res[k]
                      ELSE "CancelledError"]
    /\ held' = [k \in cc_list |-> 0]
    /\ UNCHANGED finder_vars
    /\ UNCHANGED << cc_list, concur_req, sup_pc, sup_exc, counter, error,
                    flag_resp, country_resp, flag_calls, country_calls,
                    saved, done_queue, drained, interrupted >>

----------------------------------------------------------------------------
Next ==
    \/ MainRejects
    \/ download_many
    \/ supervisor_start
    \/ \E k \in cc_list : acquire_flag(k)
    \/ \E k \in cc_list : \E resp \in FlagResponses : get_flag(k, resp)
    \/ \E k \in cc_list : acquire_country(k)
    \/ \E k \in cc_list : \E resp \in CountryResponses : get_country(k, resp)
    \/ \E k \in cc_list : save_flag(k)
    \/ drain
    \/ keyboard_interrupt
    \/ supervisor_return
    \/ asyncio_run_exit

Spec == Init /\ [][Next]_vars

----------------------------------------------------------------------------
\* tcp_mojifinder.py: the finder handler of one client connection.
\* Bytes and characters are numbers; a line is a sequence of them.

NEWLINE == 10

\* The bytes a client sends in the model: Ctrl-C (3), the unit separator
\* (31, a control character that str.strip treats as whitespace), space
\* (32), the letter a (97) and 255, a byte that occurs in no UTF-8 text.
ClientBytes == {3, 31, 32, 97, 255}

RECURSIVE SeqsUpTo(_, _)
SeqsUpTo(S, n) ==
    IF n = 0 THEN {<< >>}
    ELSE LET shorter == SeqsUpTo(S, n - 1)
         IN  shorter \cup {Append(q, b) : q \in shorter, b \in S}

\* What reader.readline can return: no bytes at end of stream, a line with
\* its newline, or the unterminated rest of the stream.
ReadlineResults ==
    LET bodies == SeqsUpTo(ClientBytes, MaxLineLen)
    IN  bodies \cup {Append(b, NEWLINE) : b \in bodies}

\* bytes.decode(): ASCII bytes decode to the characters of the same code;
\* a byte 255 makes it raise UnicodeDecodeError.
DecodeFails(bytes) == \E i \in 1..Len(bytes) : bytes[i] >= 128

\* str.isspace on the characters below 128
IsSpace(c) == c \in {9, 10, 11, 12, 13, 28, 29, 30, 31, 32}

RECURSIVE LStrip(_)
LStrip(str) ==
    IF str # << >> /\ IsSpace(Head(str)) THEN LStrip(Tail(str)) ELSE str

RECURSIVE RStrip(_)
RStrip(str) ==
    IF str # << >> /\ IsSpace(str[Len(str)])
    THEN RStrip(SubSeq(str, 1, Len(str) - 1))
    ELSE str

\* str.strip()
Strip(str) == RStrip(LStrip(str))

\* query = data.decode().strip(), or the null character when decode raises
QueryOf(bytes) == IF DecodeFails(bytes) THEN << 0 >> ELSE Strip(bytes)

\* What the loop body does with the bytes read: leave the loop ("close"),
\* call search, or go round to the next prompt.
\* (variant: the test for a control character is missing)
AfterReadNoControlTest(bytes) ==
    IF bytes = << >> THEN "close"
    ELSE IF QueryOf(bytes) # << >> THEN "search" ELSE "prompt"

AfterRead(bytes) ==
    IF bytes = << >> THEN "close"
    ELSE LET query == QueryOf(bytes)
         IN  IF query # << >>
             THEN IF Head(query) < 32 THEN "close" ELSE "search"
             ELSE "prompt"

\* writer.write(PROMPT); await writer.drain()
finder_prompt ==
    /\ finder_pc = "prompt"
    /\ prompts' = prompts + 1
    /\ finder_pc' = "read"
    /\ UNCHANGED << data, reads, searches, searched, closes >>
    /\ UNCHANGED download_vars

\* readline returns; the loop body runs up to its next await: the search,
\* the next prompt, or writer.close() after the loop.
finder_read(bytes) ==
    /\ finder_pc = "read"
    /\ reads < MaxReads
    /\ data' = bytes
    /\ reads' = reads + 1
    /\ searched' = 0
    /\ LET next == AfterRead(bytes)
       IN  IF next = "close"
           THEN /\ finder_pc' = "closed"
                /\ closes' = closes + 1
           ELSE /\ finder_pc' = next
                /\ UNCHANGED closes
    /\ UNCHANGED << prompts, searches >>
    /\ UNCHANGED download_vars

\* results = await search(query, index, writer); then the loop goes round.
finder_search ==
    /\ finder_pc = "search"
    /\ searches' = searches + 1
    /\ searched' = searched + 1
    /\ finder_pc' = "prompt"
    /\ UNCHANGED << data, prompts, reads, closes >>
    /\ UNCHANGED download_vars

FinderInit == Init /\ cc_list = {} /\ concur_req = 1

FinderNext ==
    \/ finder_prompt
    \/ \E bytes \in ReadlineResults : finder_read(bytes)
    \/ finder_search

FinderSpec == FinderInit /\ [][FinderNext]_vars

----------------------------------------------------------------------------
\* Properties

NumKeys == Cardinality(cc_list)

Last(s) == s[Len(s)]

\* The outcome the responses of a key's two fetches call for.
ExpectedStatus(k) ==
    IF flag_resp[k] = "ok" /\ country_resp[k] = "ok" THEN "OK"
    ELSE IF flag_resp[k] = "404"
            \/ (flag_resp[k] = "ok" /\ country_resp[k] = "404")
         THEN "NOT_FOUND"
         ELSE "ERROR"

ExpectedCounts ==
    [s \in DownloadStatus |->
        Cardinality({k \in cc_list : ExpectedStatus(k) = s})]

ReturnedAll == sup_pc = "returned" /\ ~interrupted

\* C1: with a capacity C >= 1, at most C tasks are inside a gated fetch
\* (get_flag or get_country) in every reachable state.
C1_GateBound ==
    concur_req >= 1 => Cardinality(Holders) <= concur_req

\* C1 witness: the gate is full with a task in each kind of fetch while
\* another task waits for a slot.
C1_Witness ==
    /\ concur_req >= 1
    /\ Cardinality(Holders) = concur_req
    /\ \E k \in cc_list : task_pc[k] = "get_flag"
    /\ \E k \in cc_list : task_pc[k] = "get_country"
    /\ \E k \in cc_list : task_pc[k] \in {"acquire_flag", "acquire_country"}

\* C2: for a non-empty key list where no fetch fails and no interrupt
\* occurs, the counts of the returned aggregate sum to len(keys).
C2_AllCounted ==
    ( /\ ReturnedAll
      /\ cc_list # {}
      /\ \A k \in cc_list : flag_resp[k] \in {"none", "ok"}
                            /\ country_resp[k] \in {"none", "ok"} )
    => Total = NumKeys

\* C2 witness: an uninterrupted return of a run of several keys whose
\* fetches all succeeded.
C2_Witness ==
    /\ ReturnedAll
    /\ NumKeys >= 2
    /\ \A k \in cc_list : flag_resp[k] = "ok" /\ country_resp[k] = "ok"

\* C3: for every capacity in 1..len(keys), the aggregate supervisor returns
\* is the tally the per-key responses call for, which does not mention the
\* capacity: two runs with the same responses return the same aggregate.
C3_CapacityIndependent ==
    (ReturnedAll /\ concur_req \in 1..NumKeys) => counter = ExpectedCounts

\* C3 witness: a return under capacity 1 with fewer slots than keys and
\* both outcomes present.
C3_Witness ==
    /\ ReturnedAll
    /\ concur_req = 1
    /\ NumKeys >= 2
    /\ counter["OK"] >= 1
    /\ counter["NOT_FOUND"] >= 1

\* C4 (as claimed): when the completion drained last raised a non-404
\* status error, supervisor has counted it as ERROR and has not raised.
C4_StatusErrorCounted ==
    (drained # << >> /\ task_res[Last(drained)] = "HTTPStatusError")
    => (sup_pc # "raised" /\ counter["ERROR"] >= 1)

\* C5 (as claimed): when the completion drained last raised a transport
\* error, supervisor has counted it as ERROR and has not raised.
C5_TransportErrorCounted ==
    (drained # << >> /\ task_res[Last(drained)] = "RequestError")
    => (sup_pc # "raised" /\ counter["ERROR"] >= 1)

\* C6 (as claimed): when supervisor ends, uninterrupted, at a moment where
\* every task has already finished with a status or a status error, every
\* key whose task returned OK or NOT_FOUND is counted under that outcome.
C6_NormalCompletionsCounted ==
    [][ ( /\ sup_pc = "draining"
          /\ sup_pc' \in {"returned", "raised"}
          /\ ~interrupted'
          /\ \A k \in cc_list :
                task_res[k] \in {"OK", "NOT_FOUND", "HTTPStatusError"} )
        => \A s \in {"OK", "NOT_FOUND"} :
             counter'[s] = Cardinality({k \in cc_list : task_res[k] = s})
      ]_vars

\* C7: without interrupt, every key is drained exactly once in whatever
\* order the tasks completed, and the per-outcome totals returned are those
\* of the set of keys, whatever that order was.
C7_OrderIndependent ==
    ReturnedAll =>
        /\ Len(drained) = NumKeys
        /\ Range(drained) = cc_list
        /\ \A s \in DownloadStatus :
             counter[s] = Cardinality({i \in 1..Len(drained) :
                                         ExpectedStatus(drained[i]) = s})
        /\ \A s \in DownloadStatus :
             counter[s] = Cardinality({k \in cc_list : ExpectedStatus(k) = s})

\* C7 witness: a return after draining against the launch order, with
\* different outcomes for the keys drained out of order.
C7_Witness ==
    /\ ReturnedAll
    /\ Len(drained) >= 2
    /\ drained[1] > drained[2]
    /\ ExpectedStatus(drained[1]) # ExpectedStatus(drained[2])

\* C8: a key whose primary fetch got 404 ends NOT_FOUND with no save_flag
\* call and no metadata fetch; a 404 on the metadata fetch ends NOT_FOUND
\* with no save_flag call.
C8_NotFoundNoSave ==
    \A k \in cc_list :
        /\ flag_resp[k] = "404" =>
              /\ task_res[k] = "NOT_FOUND"
              /\ saved[k] = 0
              /\ country_calls[k] = 0
        /\ country_resp[k] = "404" =>
              /\ task_res[k] = "NOT_FOUND"
              /\ saved[k] = 0

\* C8 witness: one key got 404 on the primary fetch, another on the
\* metadata fetch.
C8_Witness ==
    \E k1, k2 \in cc_list :
        /\ flag_resp[k1] = "404"
        /\ country_resp[k2] = "404"

C10_BadCapacityRejected ==
    concur_req < 1 =>
        /\ sup_pc \in {"main", "usage_error"}
        /\ sup_pc = "main" => (ENABLED MainRejects /\ ~ENABLED download_many)
        /\ loop = "none"
        /\ Total = 0
        /\ \A k \in cc_list : /\ task_pc[k] = "new"
                              /\ flag_calls[k] = 0
                              /\ country_calls[k] = 0

\* C10 witness: a run with capacity 0 and keys to fetch ended in the usage
\* error.
C10_Witness ==
    /\ concur_req = 0
    /\ cc_list # {}
    /\ sup_pc = "usage_error"

\* Results with which a download_one task can end
TaskResults == {"OK", "NOT_FOUND", "HTTPStatusError", "RequestError", "KeyError"}

\* Number of completions of key k that as_completed has delivered or holds
Completions(k) ==
    Cardinality({i \in 1..Len(done_queue) : done_queue[i] = k})
    + Cardinality({i \in 1..Len(drained) : drained[i] = k})

\* C11: a completion that raised an unexpected error (metadata without a
\* country field: KeyError) is not counted when it is drained; the error
\* leaves supervisor, so no aggregate is returned after it.
C11_UnexpectedErrorAborts ==
    /\ (drained # << >> /\ task_res[Last(drained)] = "KeyError")
         => /\ sup_pc = "raised"
            /\ sup_exc = "KeyError"
            /\ Total = Len(drained) - 1
    /\ sup_pc = "returned"
         => \A i \in 1..Len(drained) : task_res[drained[i]] # "KeyError"

\* C11 witness: the unexpected error was drained after another key had been
\* counted, and supervisor raised.
C11_Witness ==
    /\ Len(drained) >= 2
    /\ task_res[Last(drained)] = "KeyError"
    /\ country_resp[Last(drained)] = "nocountry"
    /\ sup_pc = "raised"
    /\ Total >= 1

\* C12: with no keys and a capacity >= 1, supervisor never raises and never
\* waits: from the loop it can only return, the aggregate is all zeros, no
\* task exists, no completion is queued and no slot is taken.
C12_EmptyListZeroCounts ==
    (cc_list = {} /\ concur_req >= 1) =>
        /\ sup_pc # "raised"
        /\ counter = [s \in DownloadStatus |-> 0]
        /\ DOMAIN task_pc = {}
        /\ done_queue = << >>
        /\ drained = << >>
        /\ sup_pc = "draining" =>
              /\ semaphore = concur_req
              /\ ENABLED supervisor_return
              /\ ~ENABLED drain
        /\ sup_pc = "supervisor" => ENABLED supervisor_start

\* C12 witness: supervisor returned for an empty key list.
C12_Witness ==
    /\ cc_list = {}
    /\ concur_req >= 1
    /\ sup_pc = "returned"
    /\ Total = 0

\* C13: a task never holds more than one slot; it holds one exactly while
\* inside get_flag or get_country, and none while waiting for the second
\* slot, while saving the flag, or once it has ended.
C13_OneSlotPerTask ==
    \A k \in cc_list :
        /\ held[k] \in {0, 1}
        /\ held[k] = 1 <=> task_pc[k] \in {"get_flag", "get_country"}
        /\ task_pc[k] \in {"acquire_country", "save_flag", "done"}
             => held[k] = 0

\* C13 witness: a task is saving its flag, having gone through both
\* fetches, while another task is inside a fetch.
C13_Witness ==
    \E k1, k2 \in cc_list :
        /\ task_pc[k1] = "save_flag"
        /\ held[k1] = 0
        /\ task_pc[k2] = "get_country"
        /\ held[k2] = 1

\* C14: per key at most one primary and one metadata request; the
\* metadata request only after the primary fetch succeeded; save_flag at
\* most once and only after both succeeded; a task that ended has exactly
\* one result and one completion, a task still running has none.
C14_OneAttemptOneResult ==
    \A k \in cc_list :
        /\ flag_calls[k] <= 1
        /\ country_calls[k] <= 1
        /\ saved[k] <= 1
        /\ country_calls[k] = 1 => flag_resp[k] = "ok"
        /\ saved[k] = 1 => (flag_resp[k] = "ok" /\ country_resp[k] = "ok")
        /\ task_pc[k] = "done"
             => (task_res[k] \in TaskResults /\ Completions(k) = 1)
        /\ task_pc[k] \notin {"done", "cancelled"}
             => (task_res[k] = "none" /\ Completions(k) = 0)
        /\ task_res[k] = "OK" => saved[k] = 1

\* C14 witness: one task ended with a status after both fetches and the
\* save, another ended by raising after a failed primary fetch.
C14_Witness ==
    \E k1, k2 \in cc_list :
        /\ task_res[k1] = "OK"
        /\ flag_calls[k1] = 1 /\ country_calls[k1] = 1 /\ saved[k1] = 1
        /\ task_res[k2] = "RequestError"
        /\ flag_calls[k2] = 1 /\ country_calls[k2] = 0

\* A step adds exactly 1 to exactly one count and leaves the others alone.
AddsOne ==
    \E s \in DownloadStatus : counter' = [counter EXCEPT ![s] = @ + 1]

\* A step in which supervisor drains one more completion
DrainStep == sup_pc = "draining" /\ drained' # drained

\* The counts are changed by drain steps only, each change adds exactly 1
\* to exactly one count, and once supervisor has returned or raised the
\* counts stay as they are, whatever tasks complete afterwards.
CountsFrame ==
    /\ counter' # counter => (DrainStep /\ AddsOne)
    /\ sup_pc \in {"returned", "raised"} => counter' = counter

\* Lemma used for C15: the frame part alone holds of the code.
CountsFrameHolds == [][CountsFrame]_vars

\* C15 (as claimed): the counts change in drain steps only and are frozen
\* once draining has stopped, and each drained completion of a task that
\* returned a status or raised a status or transport error adds exactly 1
\* to exactly one count.
C15_EachDrainAddsOne ==
    [][ /\ CountsFrame
        /\ ( /\ DrainStep
              /\ task_res[Last(drained')] \in
                    {"OK", "NOT_FOUND", "HTTPStatusError", "RequestError"} )
            => AddsOne
      ]_vars

\* The semaphore has been constructed (line 97 has run without raising).
SemaphoreExists ==
    sup_pc \in {"draining", "returned", "raised"} /\ sup_exc # "ValueError"

\* C17: the slots taken from the semaphore are exactly those of the tasks
\* inside a fetch, whichever way earlier fetches ended; once every task has
\* ended, all concur_req slots are free.
C17_SlotsMatchHolders ==
    SemaphoreExists =>
        /\ concur_req - semaphore = Cardinality(Holders)
        /\ concur_req - semaphore = HeldBy(cc_list)
        /\ (\A k \in cc_list : task_pc[k] \in {"done", "cancelled"})
             => semaphore = concur_req

\* C17 witness: every task has ended, three of them by a fetch that raised
\* (a 404, a transport error, another status error), and all slots are
\* free.
C17_Witness ==
    /\ SemaphoreExists
    /\ \A k \in cc_list : task_pc[k] = "done"
    /\ semaphore = concur_req
    /\ \E k1, k2, k3 \in cc_list :
          /\ flag_resp[k1] = "404"
          /\ flag_resp[k2] = "transport"
          /\ country_resp[k3] = "status"

----------------------------------------------------------------------------
\* Scheduling.  The event loop runs every callback that is ready, so a step
\* of a task or of the supervisor that stays possible is eventually taken
\* (weak fairness); every remote call eventually answers or fails.  The
\* interrupt is the user's and has no fairness.
TaskStep(k) ==
    /\ k \in cc_list
    /\ \/ acquire_flag(k)
       \/ \E resp \in FlagResponses : get_flag(k, resp)
       \/ acquire_country(k)
       \/ \E resp \in CountryResponses : get_country(k, resp)
       \/ save_flag(k)

SupervisorStep ==
    \/ MainRejects
    \/ download_many
    \/ supervisor_start
    \/ drain
    \/ supervisor_return
    \/ asyncio_run_exit

FairInit == Init /\ Cardinality(cc_list) <= LiveKeys

FairSpec ==
    /\ FairInit
    /\ [][Next]_vars
    /\ WF_vars(SupervisorStep)
    /\ \A k \in 1..LiveKeys : WF_vars(TaskStep(k))

WaitsForSlot(k) ==
    k \in cc_list /\ task_pc[k] \in {"acquire_flag", "acquire_country"}

SupervisorEnded == sup_pc \in {"returned", "raised"}

\* C16: under fair scheduling a run with a capacity >= 1 that main lets
\* through ends: supervisor eventually returns or raises, the event loop is
\* eventually closed, and no task waits for a slot forever.
C16_RunEnds ==
    (concur_req >= 1 /\ MainAccepts(concur_req)) =>
        /\ <>SupervisorEnded
        /\ <>(loop = "closed")
        /\ \A k \in 1..LiveKeys : WaitsForSlot(k) ~> ~WaitsForSlot(k)

\* C16 witness: supervisor returned, uninterrupted, from a run in which the
\* tasks outnumbered the slots, so that some had to wait for one.
C16_Witness ==
    /\ ReturnedAll
    /\ concur_req >= 1
    /\ NumKeys > concur_req
    /\ \A k \in cc_list : task_pc[k] = "done"

----------------------------------------------------------------------------
\* The query of the last line read, as the claim describes it
LastQuery == QueryOf(data)

EndsSession ==
    data = << >> \/ (LastQuery # << >> /\ Head(LastQuery) < 32)

\* C18: in a finder session every read has its own prompt before it; after
\* a read, the session is closed (writer.close called once, no search)
\* exactly when the read returned no bytes or the query starts with a
\* character below 32 (the null character for undecodable bytes); a query
\* that is empty after stripping leads to the next prompt with no search; a
\* query starting with a character >= 32 leads to exactly one search and
\* then the next prompt.  Once closed, the session does nothing more.
C18_FinderSession ==
    /\ prompts = reads + (IF finder_pc = "read" THEN 1 ELSE 0)
    /\ closes = (IF finder_pc = "closed" THEN 1 ELSE 0)
    /\ reads = 0 => (finder_pc \in {"prompt", "read"} /\ searches = 0)
    /\ reads > 0 =>
         /\ finder_pc = "closed" <=> EndsSession
         /\ EndsSession => searched = 0
         /\ (~EndsSession /\ LastQuery = << >>) =>
               (searched = 0 /\ finder_pc \in {"prompt", "read"})
         /\ (~EndsSession /\ LastQuery # << >>) =>
               \/ (finder_pc = "search" /\ searched = 0)
               \/ (finder_pc \in {"prompt", "read"} /\ searched = 1)
    /\ finder_pc = "closed" => ~ENABLED FinderNext

\* C18 witness: a session that searched once for a query, then read a line
\* of whitespace only, then was closed by undecodable bytes.
C18_Witness ==
    /\ finder_pc = "closed"
    /\ reads = 3
    /\ searches = 1
    /\ prompts = 3
    /\ DecodeFails(data)

====
